---- MODULE Spec2Model ----
(***************************************************************************)
(* Request execution and error classification of the Nodela Python SDK     *)
(* (src/src/nodela/utils/http.py).                                         *)
(*                                                                         *)
(* HTTPClient.request hands one logical call to requests.Session.request.  *)
(* The session is mounted with HTTPAdapter(max_retries=Retry(total=N,      *)
(* backoff_factor=1, status_forcelist=[429,500,502,503,504],               *)
(* allowed_methods=[GET,POST,PUT,DELETE,PATCH])), so the attempts of one   *)
(* call are driven by urllib3's Retry object as configured there; every    *)
(* option the constructor call leaves out keeps its urllib3 default        *)
(* (raise_on_status=True, respect_retry_after_header=True, connect=read=   *)
(* status=other=None).  The response or exception that leaves              *)
(* session.request is then classified by request/_handle_response.         *)
(*                                                                         *)
(* Text (messages, raw bodies, exception texts) is a sequence of words.    *)
(* An optional value (Python None or a value) is the empty set or a        *)
(* singleton.  Responses carry no Location header (redirects are not       *)
(* followed in this model).                                                *)
(***************************************************************************)
EXTENDS Integers, Sequences, FiniteSets, TLC

\* Largest max_retries a client is constructed with.
MaxRetriesBound == 3

VARIABLES
    base_url_arg, \* base_url argument the client was constructed with
    base_url,     \* HTTPClient.base_url
    api_key,      \* HTTPClient.api_key
    timeout,      \* HTTPClient.timeout
    call,         \* entry point and arguments of the current call
    sent,         \* arguments of session.request as dispatched by the latest attempt
    other,        \* a second call in flight on the same client
    max_retries,  \* Retry.total the session was configured with
    pc,           \* "idle" | "sending" | "done": position of the request call
    method,       \* HTTP method of the current call
    total,        \* Retry.total left for the current call
    attempts,     \* attempts dispatched by the current call
    last,         \* transport outcome of the latest attempt
    first,        \* status of the first attempt (0: it failed without a response)
    allSame,      \* every attempt of the current call had the outcome `last'
    outcome,      \* what the call returned or raised (None while pending)
    args,         \* entry point of the current call and the arguments it was given
    wait,         \* seconds slept before the next attempt (0: none)
    peer,         \* a second NodelaClient of the same process
    prior         \* outcome of the call before, when the current call repeats it

config == <<base_url_arg, base_url, api_key, timeout, max_retries>>

vars == <<base_url_arg, base_url, api_key, timeout, call, sent, other,
          max_retries, pc, method, total, attempts, first, last, allSame, outcome,
          args, wait, peer, prior>>

\* Everything that belongs to the first client and its calls.
mainvars == <<base_url_arg, base_url, api_key, timeout, call, sent, other,
              max_retries, pc, method, total, attempts, first, last, allSame, outcome,
              args, wait, prior>>

----------------------------------------------------------------------------
\* Optional values.
None == {}

Some(x) == {x}

\* s contains t as a contiguous run of words (Python's `t in s').
Contains(s, t) ==
    \E i \in 0..(Len(s) - Len(t)) :
        \A j \in 1..Len(t) : s[i + j] = t[j]

----------------------------------------------------------------------------
\* JSON values and raw bodies.

JsonObject(fields) == [fields |-> fields, kind |-> "object", text |-> <<>>]

JsonArray == [fields |-> {}, kind |-> "array", text |-> <<>>]

JsonString(t) == [fields |-> {}, kind |-> "string", text |-> t]

\* A body as received: JSON text for `value', or text that is not JSON.
JsonBody(v) == [text |-> <<>>, json |-> TRUE, value |-> v]

TextBody(t) == [text |-> t, json |-> FALSE, value |-> JsonArray]

BodyWithMessage ==
    JsonBody(JsonObject({<<"message", <<"Too", "many", "requests">>>>,
                         <<"code", <<"E1">>>>}))

BodyWithoutMessage == JsonBody(JsonObject({<<"id", <<"inv_1">>>>}))

BodyArray == JsonBody(JsonArray)

BodyString == JsonBody(JsonString(<<"ok">>))

BodyText == TextBody(<<"Bad", "Gateway">>)

Bodies == {BodyWithMessage, BodyWithoutMessage, BodyArray, BodyString, BodyText}

\* Variant: a body that is not JSON decodes to an empty mapping.
DecodeBody_Empty(raw) ==
    IF raw.json THEN raw.value
    ELSE JsonObject({})

\* try: data = response.json()  except ValueError: data = {"message": response.text}
DecodeBody(raw) ==
    IF raw.json THEN raw.value
    ELSE JsonObject({<<"message", raw.text>>})

IsDict(data) == data.kind = "object"

\* dict.get(key, default)
DictGet(data, key, default) ==
    IF \E p \in data.fields : p[1] = key
    THEN (CHOOSE p \in data.fields : p[1] = key)[2]
    ELSE default

----------------------------------------------------------------------------
\* Outcomes of a request call.

NoOutcome ==
    [kind |-> "pending", value |-> None, status_code |-> None,
     response |-> None, message |-> <<>>]

\* return data
Returned(data) ==
    [kind |-> "Success", value |-> Some(data), status_code |-> None,
     response |-> None, message |-> <<>>]

\* NodelaError.__init__(message, status_code=None, response=None) of class `kind'
Raised(kind, message, status_code, response) ==
    [kind |-> kind, value |-> None, status_code |-> status_code,
     response |-> response, message |-> message]

NodelaErrorKinds ==
    {"NodelaError", "AuthenticationError", "ValidationError", "RateLimitError",
     "NotFoundError", "ServerError", "NetworkError"}

DefaultErrorMessage == <<"An", "error", "occurred">>

\* HTTPClient._handle_response
HandleResponse(status, raw) ==
    LET data == DecodeBody(raw) IN
    IF status = 200 \/ status = 201 THEN Returned(data)
    ELSE IF ~IsDict(data)
         \* data.get on a list or scalar: AttributeError leaves the method
         THEN Raised("AttributeError", <<"object", "has", "no", "attribute", "get">>,
                     None, None)
    ELSE LET error_message == DictGet(data, "message", DefaultErrorMessage) IN
         IF status = 401
             THEN Raised("AuthenticationError", error_message, Some(status), Some(data))
         ELSE IF status = 400 \/ status = 422
             THEN Raised("ValidationError", error_message, Some(status), Some(data))
         ELSE IF status = 404
             THEN Raised("NotFoundError", error_message, Some(status), Some(data))
         ELSE IF status = 429
             THEN Raised("RateLimitError", error_message, Some(status), Some(data))
         ELSE IF status >= 500
             THEN Raised("ServerError", error_message, Some(status), Some(data))
         ELSE Raised("NodelaError", error_message, Some(status), Some(data))

----------------------------------------------------------------------------
\* Retry policy of the mounted adapter (HTTPClient.__init__).

\* status_forcelist
RetryableStatuses == {429, 500, 502, 503, 504}

\* allowed_methods
RetryableMethods == {"GET", "POST", "PUT", "DELETE", "PATCH"}

\* urllib3 Retry.RETRY_AFTER_STATUS_CODES, consulted because the Retry object
\* keeps respect_retry_after_header = True
RetryAfterStatusCodes == {413, 429, 503}

\* Variant: POST is left out of allowed_methods.
IsMethodRetryable_NoPost(m) == m \in RetryableMethods \ {"POST"}

\* Retry._is_method_retryable
IsMethodRetryable(m) == m \in RetryableMethods

\* Variant: the status is not looked at, every response of a retryable
\* method is retried.
IsRetry_AnyStatus(m, status, has_retry_after, tot) == IsMethodRetryable(m)

\* Retry.is_retry(method, status_code, has_retry_after) of a Retry with `tot' left
IsRetry(m, status, has_retry_after, tot) ==
    /\ IsMethodRetryable(m)
    /\ \/ status \in RetryableStatuses
       \/ (tot # 0 /\ has_retry_after /\ status \in RetryAfterStatusCodes)

\* Variant: one retry too many is allowed.
IsExhausted_OneMore(tot) == tot < -1

\* Variant: the last retry is never made.
IsExhausted_OneLess(tot) == tot <= 0

\* Retry.is_exhausted: of the counters only total is set; a counter of 0 is
\* filtered out, so the policy is exhausted once total is below 0.
IsExhausted(tot) == tot < 0

\* Retry._is_connection_error: the server did not receive the request
IsConnectionError(fault) == fault = "ConnectTimeoutError"

\* Retry._is_read_error: the request had been started
IsReadError(fault) == fault \in {"ReadTimeoutError", "ProtocolError"}

----------------------------------------------------------------------------
\* Transport outcomes of one attempt.

Response(status, body, has_retry_after) ==
    [status |-> status, fault |-> "none", body |-> body, type |-> "response",
     retry_after |-> has_retry_after]

Fault(f) ==
    [status |-> 0, fault |-> f, body |-> BodyArray, type |-> "fault",
     retry_after |-> FALSE]

NoAttempt ==
    [status |-> 0, fault |-> "none", body |-> BodyArray, type |-> "none",
     retry_after |-> FALSE]

Statuses == {200, 201, 204, 302, 400, 401, 404, 413, 418, 422, 429,
             500, 501, 502, 503, 504}

\* Faults of the connection pool (urllib3) and of reading the response body.
Faults == {"ConnectTimeoutError", "NewConnectionError", "ReadTimeoutError",
           "ProtocolError", "ChunkedEncodingError"}

Methods == RetryableMethods \cup {"HEAD"}

\* A Retry-After header is modelled on the statuses for which urllib3 reads it.
AttemptOutcomes ==
    {Response(s, b, FALSE) : s \in Statuses, b \in Bodies}
        \cup {Response(s, b, TRUE) : s \in RetryAfterStatusCodes, b \in Bodies}
        \cup {Fault(f) : f \in Faults}

----------------------------------------------------------------------------
\* Exceptions: [cls, text]; text is str(e).

NoException == [text |-> <<>>, cls |-> "none"]

Exception(cls, text) == [text |-> text, cls |-> cls]

StatusText(s) ==
    CASE s = 413 -> "413" [] s = 429 -> "429" [] s = 500 -> "500"
      [] s = 502 -> "502" [] s = 503 -> "503" [] s = 504 -> "504"
      [] OTHER -> "status"

FaultText(f) ==
    CASE f = "ConnectTimeoutError" -> <<"Connection", "to", "host", "timed", "out">>
      [] f = "NewConnectionError" -> <<"Failed", "to", "establish", "a", "new", "connection">>
      [] f = "ReadTimeoutError" -> <<"Read", "timed", "out">>
      [] f = "ProtocolError" -> <<"Connection", "aborted">>
      [] OTHER -> <<"Connection", "broken">>

\* ResponseError.SPECIFIC_ERROR
ResponseErrorText(status) == <<"too", "many", StatusText(status), "error", "responses">>

\* MaxRetryError(pool, url, reason)
MaxRetryErrorText(reason, text) ==
    <<"Max", "retries", "exceeded", "Caused", "by", reason>> \o text

\* Retry.increment for a failed attempt o of method m with `tot' left:
\* the exception it raises (a re-raised read error, or MaxRetryError when the
\* new Retry is exhausted), or none with the new total.
Increment(m, tot, o) ==
    LET newTotal == tot - 1
        reason == IF o.type = "fault" THEN o.fault ELSE "ResponseError"
        text == IF o.type = "fault" THEN FaultText(o.fault)
                ELSE ResponseErrorText(o.status)
    IN  IF o.type = "fault" /\ ~IsConnectionError(o.fault) /\ IsReadError(o.fault)
           /\ ~IsMethodRetryable(m)
        THEN [total |-> tot, reason |-> reason,
              exc |-> Exception(o.fault, FaultText(o.fault)), max_retry |-> FALSE]
        ELSE IF IsExhausted(newTotal)
        THEN [total |-> tot, reason |-> reason,
              exc |-> Exception("MaxRetryError", MaxRetryErrorText(reason, text)),
              max_retry |-> TRUE]
        ELSE [total |-> newTotal, reason |-> reason, exc |-> NoException,
              max_retry |-> FALSE]

\* HTTPAdapter.send: the requests exception for what urlopen raised.
AdapterException(inc) ==
    IF inc.max_retry
    THEN IF inc.reason = "ConnectTimeoutError" THEN Exception("ConnectTimeout", inc.exc.text)
         ELSE IF inc.reason = "ResponseError" THEN Exception("RetryError", inc.exc.text)
         ELSE Exception("ConnectionError", inc.exc.text)
    ELSE IF inc.exc.cls = "ProtocolError" THEN Exception("ConnectionError", inc.exc.text)
    ELSE Exception("ReadTimeout", inc.exc.text)

\* One attempt inside session.request (HTTPConnectionPool.urlopen under the
\* mounted Retry): retry with a new total, return the response, or raise.
SessionRequest(m, tot, o) ==
    IF o.type = "fault" /\ o.fault = "ChunkedEncodingError"
    \* the body of a response that is not retried could not be read
    THEN [total |-> tot, exc |-> Exception("ChunkedEncodingError", FaultText(o.fault)),
          action |-> "raise"]
    ELSE IF o.type = "response" /\ ~IsRetry(m, o.status, o.retry_after, tot)
    THEN [total |-> tot, exc |-> NoException, action |-> "return"]
    ELSE LET inc == Increment(m, tot, o) IN
         IF inc.exc = NoException
         THEN [total |-> inc.total, exc |-> NoException, action |-> "retry"]
         \* raise_on_status is True: MaxRetryError is raised for a response too
         ELSE [total |-> tot, exc |-> AdapterException(inc), action |-> "raise"]

\* Retry(backoff_factor=1)
BackoffFactor == 1

\* Retry.DEFAULT_BACKOFF_MAX
BackoffMax == 120

\* Seconds named by the Retry-After header of a response that carries one.
RetryAfterSeconds == 7

\* Variant: the first retry waits too.
GetBackoffTime_FromFirst(n) ==
    IF BackoffFactor * 2^(n - 1) < BackoffMax THEN BackoffFactor * 2^(n - 1)
    ELSE BackoffMax

\* Retry.get_backoff_time after n consecutive failed attempts
GetBackoffTime(n) ==
    IF n <= 1 THEN 0
    ELSE IF BackoffFactor * 2^(n - 1) < BackoffMax THEN BackoffFactor * 2^(n - 1)
    ELSE BackoffMax

\* Retry.sleep(response) after the failed attempt n with outcome o: the
\* Retry-After of the response when it has one, else the backoff.
Sleep(n, o) ==
    IF o.type = "response" /\ o.retry_after THEN RetryAfterSeconds
    ELSE GetBackoffTime(n)

----------------------------------------------------------------------------
\* requests exception classes

\* subclasses of requests.exceptions.Timeout
IsTimeout(cls) == cls \in {"ConnectTimeout", "ReadTimeout"}

\* subclasses of requests.exceptions.ConnectionError
IsConnectionErrorClass(cls) == cls \in {"ConnectionError", "ConnectTimeout"}

\* the except clauses of HTTPClient.request, in order
\* Variant: without the last handler the exception leaves request as it is.
ExceptHandlers_NoCatchAll(exc) ==
    IF IsTimeout(exc.cls)
    THEN Raised("NetworkError", <<"Request", "timed", "out", ":">> \o exc.text, None, None)
    ELSE IF IsConnectionErrorClass(exc.cls)
    THEN Raised("NetworkError", <<"Connection", "error", ":">> \o exc.text, None, None)
    ELSE Raised(exc.cls, exc.text, None, None)

\* Variant: the ConnectionError clause comes before the Timeout clause.
ExceptHandlers_ConnectionFirst(exc) ==
    IF IsConnectionErrorClass(exc.cls)
    THEN Raised("NetworkError", <<"Connection", "error", ":">> \o exc.text, None, None)
    ELSE IF IsTimeout(exc.cls)
    THEN Raised("NetworkError", <<"Request", "timed", "out", ":">> \o exc.text, None, None)
    ELSE Raised("NodelaError", <<"Request", "failed", ":">> \o exc.text, None, None)

\* except Timeout / except ConnectionError / except RequestException
ExceptHandlers(exc) ==
    IF IsTimeout(exc.cls)
    THEN Raised("NetworkError", <<"Request", "timed", "out", ":">> \o exc.text, None, None)
    ELSE IF IsConnectionErrorClass(exc.cls)
    THEN Raised("NetworkError", <<"Connection", "error", ":">> \o exc.text, None, None)
    ELSE Raised("NodelaError", <<"Request", "failed", ":">> \o exc.text, None, None)

\* Variant: the classification looks at the retries the session has left.
RequestResult_Stateful(r, o) ==
    IF r.action = "return"
    THEN HandleResponse(o.status, IF r.total = 0 THEN BodyText ELSE o.body)
    ELSE ExceptHandlers(r.exc)

\* What HTTPClient.request returns or raises once session.request is over.
RequestResult(r, o) ==
    IF r.action = "return" THEN HandleResponse(o.status, o.body)
    ELSE ExceptHandlers(r.exc)

----------------------------------------------------------------------------
\* URLs and paths are sequences of text pieces; every "/" is a piece of its own.

\* str.rstrip("/")
RECURSIVE RStrip(_)
RStrip(s) ==
    IF s # <<>> /\ s[Len(s)] = "/" THEN RStrip(SubSeq(s, 1, Len(s) - 1)) ELSE s

\* str.lstrip("/")
RECURSIVE LStrip(_)
LStrip(s) ==
    IF s # <<>> /\ s[1] = "/" THEN LStrip(Tail(s)) ELSE s

\* Variant: the endpoint keeps its leading slashes.
BuildUrl_KeepsSlashes(base, endpoint) == base \o <<"/">> \o endpoint

\* url = f"{self.base_url}/{endpoint.lstrip('/')}"
BuildUrl(base, endpoint) == base \o <<"/">> \o LStrip(endpoint)

\* The arguments of a call: entry point, then those of HTTPClient.request.
Call(via, endpoint, data, params, headers) ==
    [data |-> data, endpoint |-> endpoint, via |-> via, params |-> params,
     headers |-> headers]

NoCall == Call("none", <<>>, None, None, None)

\* The keyword arguments of session.request.
SessionArgs(m, url, json, params, headers, t) ==
    [timeout |-> Some(t), method |-> m, json |-> json, params |-> params,
     headers |-> Some(headers), url |-> url]

NoRequest ==
    [timeout |-> None, method |-> "none", json |-> None, params |-> None,
     headers |-> None, url |-> <<>>]

\* Headers are functions from header names to values.
DefaultHeaders(key) ==
    [k \in {"Authorization", "Content-Type", "User-Agent"} |->
        IF k = "Authorization" THEN <<"Bearer", key>>
        ELSE IF k = "Content-Type" THEN <<"application/json">>
        ELSE <<"NodelaSDK/1.0">>]

\* dict.update
DictUpdate(d, u) ==
    [k \in (DOMAIN d) \cup (DOMAIN u) |-> IF k \in DOMAIN u THEN u[k] ELSE d[k]]

\* Variant: the default wins where a key is in both.
GetHeaders_DefaultsWin(key, custom_headers) ==
    IF custom_headers # None
    THEN LET c == CHOOSE c \in custom_headers : TRUE IN DictUpdate(c, DefaultHeaders(key))
    ELSE DefaultHeaders(key)

\* Variant: the Authorization header carries the key without the scheme.
GetHeaders_NoScheme(key, custom_headers) ==
    [DefaultHeaders(key) EXCEPT !["Authorization"] = <<key>>]

\* HTTPClient._get_headers; custom_headers is None or Some(mapping), and an
\* empty mapping is falsy
GetHeaders(key, custom_headers) ==
    LET headers == DefaultHeaders(key) IN
    IF custom_headers # None /\ (\A c \in custom_headers : DOMAIN c # {})
    THEN DictUpdate(headers, CHOOSE c \in custom_headers : TRUE)
    ELSE headers

\* Variant: the request is dispatched without a timeout.
Prepared_NoTimeout(m, c, base, key, t) ==
    [SessionArgs(m, BuildUrl(base, c.endpoint), c.data, c.params,
                 GetHeaders(key, c.headers), t) EXCEPT !.timeout = None]

\* Variant: an absent body or query is sent as an empty one.
Prepared_EmptyWhenAbsent(m, c, base, key, t) ==
    SessionArgs(m, BuildUrl(base, c.endpoint),
                IF c.data = None THEN Some(JsonObject({})) ELSE c.data,
                IF c.params = None THEN Some({}) ELSE c.params,
                GetHeaders(key, c.headers), t)

\* HTTPClient.request, lines 115-126: what is handed to session.request
Prepared(m, c, base, key, t) ==
    SessionArgs(m, BuildUrl(base, c.endpoint), c.data, c.params,
                GetHeaders(key, c.headers), t)

----------------------------------------------------------------------------
\* Inputs.

\* NodelaClient.__init__ passes this base URL
DefaultBaseUrl == <<"https:", "/", "/", "api.nodela.co">>

BaseUrls ==
    {DefaultBaseUrl,
     <<"https:", "/", "/", "api.example.com", "/">>,
     <<"https:", "/", "/", "api.example.com", "/", "/">>}

ApiKeys == {"key_1", "key_2"}

DefaultTimeout == 30

Timeouts == {DefaultTimeout, 60}

DefaultEndpoint == <<"v1", "/", "x">>

Endpoints == {DefaultEndpoint, <<"/", "v1", "/", "x">>, <<"/", "/", "v1", "/", "x">>}

Payloads == {None, Some(JsonObject({<<"amount", <<"100">>>>}))}

Queries == {None, Some({<<"page", 1>>})}

CustomHeaders ==
    {None,
     Some([k \in {} |-> <<>>]),
     Some([k \in {"X-Custom-Header"} |-> <<"custom-value">>]),
     Some([k \in {"Authorization", "X-Custom-Header"} |->
             IF k = "Authorization" THEN <<"Bearer", "different_token">>
             ELSE <<"custom-value">>])}

----------------------------------------------------------------------------
\* Guard that keeps the attempt counter finite.
AttemptCap == MaxRetriesBound + 3

\* No call has been made: `args' holds the name of the method the caller
\* used, followed by the arguments it was given.
NoArgs == <<>>

\* A NodelaClient and the call in flight on it: the arguments and the
\* environment it was constructed with, self.api_key, self._http (None
\* until it is built), the resource objects it holds, and the position,
\* retry state and outcome of its call.
Client(api_key_arg, environ, http, resources, key, p, m, tot, n, o, out) ==
    [api_key |-> key, pc |-> p, method |-> m, total |-> tot, attempts |-> n,
     last |-> o, outcome |-> out, api_key_arg |-> api_key_arg, environ |-> environ,
     http |-> http, resources |-> resources]

\* No second client has been constructed.
NoPeer == Client(None, {}, None, {}, None, "absent", "GET", 0, 0, NoAttempt, NoOutcome)

\* The attributes HTTPClient.__init__ stores.
HTTPClientOf(b, k, t, n) ==
    [base_url |-> RStrip(b), api_key |-> k, timeout |-> t, max_retries |-> n]

\* os.getenv(name) in the environment environ, a set of <<name, value>>
\* with one value for a name
GetEnv(environ, name) == {v[2] : v \in {e \in environ : e[1] = name}}

\* bool(v) of an optional string
Truthy(v) == v # None /\ v # Some("")

\* Python's `a or b'
Or(a, b) == IF Truthy(a) THEN a ELSE b

\* Variant: the environment variable wins over the argument.
ResolveApiKey_EnvFirst(api_key_arg, environ) ==
    Or(GetEnv(environ, "NODELA_API_KEY"), api_key_arg)

\* api_key or os.getenv("NODELA_API_KEY")
ResolveApiKey(api_key_arg, environ) == Or(api_key_arg, GetEnv(environ, "NODELA_API_KEY"))

ApiKeyRequiredMessage ==
    <<"API", "key", "is", "required", ".", "Pass", "it", "as", "api_key", "parameter",
      "or", "set", "NODELA_API_KEY", "environment", "variable">>

\* The retry state of a second call: its own Retry object, copied from the
\* one mounted on the session when the call enters urlopen.
OtherCall(p, m, tot, n, o, out) ==
    [pc |-> p, method |-> m, total |-> tot, attempts |-> n, last |-> o, outcome |-> out]

NoOtherCall(n) == OtherCall("idle", "GET", n, 0, NoAttempt, NoOutcome)

\* HTTPClient.__init__(base_url, api_key, timeout, max_retries)
Construct(b, k, t, n) ==
    /\ base_url_arg = b
    /\ base_url = RStrip(b)
    /\ api_key = k
    /\ timeout = t
    /\ max_retries = n
    /\ call = NoCall
    /\ sent = NoRequest
    /\ other = NoOtherCall(n)
    /\ pc = "idle"
    /\ method = "GET"
    /\ total = n
    /\ attempts = 0
    /\ first = 0
    /\ last = NoAttempt
    /\ allSame = TRUE
    /\ outcome = NoOutcome
    /\ args = NoArgs
    /\ wait = 0
    /\ peer = NoPeer
    /\ prior = NoOutcome

\* A client as NodelaClient builds it, with any max_retries.
Init == \E n \in 0..MaxRetriesBound : Construct(DefaultBaseUrl, "key_1", DefaultTimeout, n)

\* Variant: a call with the method and arguments of the call before it
\* ends with the payload that call returned, and nothing is dispatched.
StartCall_ReturnsCached(m, c) ==
    /\ pc = "idle"
    /\ pc' = IF outcome.kind = "Success" /\ m = method /\ c = call THEN "done" ELSE "sending"
    /\ method' = m
    /\ call' = c
    /\ sent' = NoRequest
    /\ total' = max_retries
    /\ attempts' = 0
    /\ first' = 0
    /\ last' = NoAttempt
    /\ allSame' = TRUE
    /\ outcome' = IF outcome.kind = "Success" /\ m = method /\ c = call THEN outcome
                  ELSE NoOutcome
    /\ wait' = 0
    /\ UNCHANGED <<config, other, peer>>

\* Variant: the call goes on with the retries the previous call left.
StartCall_KeepsBudget(m, c) ==
    /\ pc = "idle"
    /\ pc' = "sending"
    /\ method' = m
    /\ call' = c
    /\ sent' = NoRequest
    /\ total' = total
    /\ attempts' = 0
    /\ first' = 0
    /\ last' = NoAttempt
    /\ allSame' = TRUE
    /\ outcome' = NoOutcome
    /\ wait' = 0
    /\ UNCHANGED <<config, other, peer>>

\* HTTPClient.request is entered with method m and the arguments c: the
\* session starts from the mounted Retry.
StartCall(m, c) ==
    /\ pc = "idle"
    /\ pc' = "sending"
    /\ method' = m
    /\ call' = c
    /\ sent' = NoRequest
    /\ total' = max_retries
    /\ attempts' = 0
    /\ first' = 0
    /\ last' = NoAttempt
    /\ allSame' = TRUE
    /\ outcome' = NoOutcome
    /\ wait' = 0
    /\ UNCHANGED <<config, other, peer>>

\* HTTPClient.request(method, endpoint, data, params, headers)
Request(m, endpoint, data, params, headers) ==
    /\ StartCall(m, Call("request", endpoint, data, params, headers))
    /\ args' = <<"request", m, endpoint, data, params, headers>>
    /\ prior' = NoOutcome

\* HTTPClient.get(endpoint, params)
Get(endpoint, params) ==
    /\ StartCall("GET", Call("get", endpoint, None, params, None))
    /\ args' = <<"get", endpoint, params>>
    /\ prior' = NoOutcome

\* HTTPClient.post(endpoint, data)
Post(endpoint, data) ==
    /\ StartCall("POST", Call("post", endpoint, data, None, None))
    /\ args' = <<"post", endpoint, data>>
    /\ prior' = NoOutcome

\* HTTPClient.put(endpoint, data)
Put(endpoint, data) ==
    /\ StartCall("PUT", Call("put", endpoint, data, None, None))
    /\ args' = <<"put", endpoint, data>>
    /\ prior' = NoOutcome

\* HTTPClient.patch(endpoint, data)
Patch(endpoint, data) ==
    /\ StartCall("PATCH", Call("patch", endpoint, data, None, None))
    /\ args' = <<"patch", endpoint, data>>
    /\ prior' = NoOutcome

\* HTTPClient.delete(endpoint)
Delete(endpoint) ==
    /\ StartCall("DELETE", Call("delete", endpoint, None, None, None))
    /\ args' = <<"delete", endpoint>>
    /\ prior' = NoOutcome

\* One attempt is dispatched and its transport outcome o is handled.
Attempt(o) ==
    /\ pc = "sending"
    /\ attempts < AttemptCap
    /\ LET r == SessionRequest(method, total, o) IN
       /\ attempts' = attempts + 1
       /\ first' = IF attempts = 0 THEN o.status ELSE first
       /\ last' = o
       /\ sent' = Prepared(method, call, base_url, api_key, timeout)
       /\ allSame' = (attempts = 0 \/ (allSame /\ o = last))
       /\ IF r.action = "retry"
          THEN /\ pc' = "sending"
               /\ total' = r.total
               /\ outcome' = outcome
          ELSE /\ pc' = "done"
               /\ total' = total
               /\ outcome' = RequestResult(r, o)
       /\ wait' = IF r.action = "retry" THEN Sleep(attempts + 1, o) ELSE 0
    /\ UNCHANGED <<config, call, method, other, args, peer, prior>>

\* The caller has the outcome; the client is ready for the next call.
Finish ==
    /\ pc = "done"
    /\ pc' = "idle"
    /\ UNCHANGED <<config, call, sent, method, total, attempts, first, last, allSame,
                   outcome, other, args, wait, peer, prior>>

\* Variant: `if page:' and `if limit:' in place of the tests against None.
TransactionsList_DropsFalsy(page, limit) ==
    LET params == {<<"page", v>> : v \in page \ {0}} \cup {<<"limit", v>> : v \in limit \ {0}}
    IN  /\ StartCall("GET", Call("transactions.list", <<"v1", "/", "transactions">>, None,
                                 IF params # {} THEN Some(params) ELSE None, None))
        /\ args' = <<"transactions.list", page, limit>>
        /\ prior' = NoOutcome

\* Transactions.list(page, limit); page and limit are None or Some(int)
TransactionsList(page, limit) ==
    LET params == {<<"page", v>> : v \in page} \cup {<<"limit", v>> : v \in limit}
    IN  /\ StartCall("GET", Call("transactions.list", <<"v1", "/", "transactions">>, None,
                                 IF params # {} THEN Some(params) ELSE None, None))
        /\ args' = <<"transactions.list", page, limit>>
        /\ prior' = NoOutcome

\* Invoices.verify(invoice_id)
InvoicesVerify(invoice_id) ==
    /\ StartCall("GET", Call("invoices.verify",
                             <<"v1", "/", "invoices">> \o <<"/">> \o invoice_id
                                 \o <<"/", "verify">>,
                             None, None, None))
    /\ args' = <<"invoices.verify", invoice_id>>
    /\ prior' = NoOutcome

\* str.upper on the currency codes of the model
Upper(c) == IF c = "usd" THEN "USD" ELSE IF c = "xyz" THEN "XYZ" ELSE c

\* The codes of SUPPORTED_CURRENCIES that the model uses.
SUPPORTED_CURRENCIES == {"USD", "EUR", "NGN"}

\* CreateInvoiceParams.to_dict(): model_dump(exclude_none=True)
ToDict(params) ==
    {<<"amount", <<params.amount>>>>, <<"currency", <<params.currency>>>>}
        \cup {<<"reference", <<r>>>> : r \in params.reference}

\* Variant: the payload carries the currency as the caller wrote it.
InvoicesCreate_CurrencyAsGiven(params) ==
    LET upper == Upper(params.currency) IN
    IF upper \notin SUPPORTED_CURRENCIES
    THEN /\ pc = "idle"
         /\ pc' = "done"
         /\ method' = "POST"
         /\ call' = Call("invoices.create", <<"v1", "/", "invoices">>, None, None, None)
         /\ sent' = NoRequest
         /\ total' = max_retries
         /\ attempts' = 0
         /\ first' = 0
         /\ last' = NoAttempt
         /\ allSame' = TRUE
         /\ outcome' = Raised("ValueError", <<"Unsupported", "currency", ":", params.currency>>,
                              None, None)
         /\ args' = <<"invoices.create", params>>
         /\ prior' = NoOutcome
         /\ wait' = 0
         /\ UNCHANGED <<config, other, peer>>
    ELSE LET payload == ToDict(params)
         IN  /\ StartCall("POST", Call("invoices.create", <<"v1", "/", "invoices">>,
                                       Some(JsonObject(payload)), None, None))
             /\ args' = <<"invoices.create", params>>
             /\ prior' = NoOutcome

\* Invoices.create(params)
InvoicesCreate(params) ==
    LET upper == Upper(params.currency) IN
    IF upper \notin SUPPORTED_CURRENCIES
    THEN /\ pc = "idle"
         /\ pc' = "done"
         /\ method' = "POST"
         /\ call' = Call("invoices.create", <<"v1", "/", "invoices">>, None, None, None)
         /\ sent' = NoRequest
         /\ total' = max_retries
         /\ attempts' = 0
         /\ first' = 0
         /\ last' = NoAttempt
         /\ allSame' = TRUE
         /\ outcome' = Raised("ValueError", <<"Unsupported", "currency", ":", params.currency>>,
                              None, None)
         /\ args' = <<"invoices.create", params>>
         /\ prior' = NoOutcome
         /\ wait' = 0
         /\ UNCHANGED <<config, other, peer>>
    ELSE LET payload == {f \in ToDict(params) : f[1] # "currency"}
                            \cup {<<"currency", <<upper>>>>}
         IN  /\ StartCall("POST", Call("invoices.create", <<"v1", "/", "invoices">>,
                                       Some(JsonObject(payload)), None, None))
             /\ args' = <<"invoices.create", params>>
             /\ prior' = NoOutcome

\* A second thread enters HTTPClient.request on the same client.
Request2(m) ==
    /\ other.pc = "idle"
    /\ other' = OtherCall("sending", m, max_retries, 0, NoAttempt, NoOutcome)
    /\ UNCHANGED <<config, call, sent, pc, method, total, attempts, first, last, allSame,
                   outcome, args, wait, peer, prior>>

\* Variant: the retries of the second call are also taken from the first one.
Attempt2_SharedBudget(o) ==
    /\ other.pc = "sending"
    /\ other.attempts < AttemptCap
    /\ LET r == SessionRequest(other.method, other.total, o) IN
       /\ other' = IF r.action = "retry"
                   THEN OtherCall("sending", other.method, r.total, other.attempts + 1,
                                  o, NoOutcome)
                   ELSE OtherCall("done", other.method, other.total, other.attempts + 1,
                                  o, RequestResult(r, o))
       /\ total' = IF r.action = "retry" /\ total > 0 THEN total - 1 ELSE total
    /\ UNCHANGED <<config, call, sent, pc, method, attempts, first, last, allSame, outcome,
                   args, wait, peer, prior>>

\* One attempt of the second call completes with outcome o.
Attempt2(o) ==
    /\ other.pc = "sending"
    /\ other.attempts < AttemptCap
    /\ LET r == SessionRequest(other.method, other.total, o) IN
       other' = IF r.action = "retry"
                THEN OtherCall("sending", other.method, r.total, other.attempts + 1,
                               o, NoOutcome)
                ELSE OtherCall("done", other.method, other.total, other.attempts + 1,
                               o, RequestResult(r, o))
    /\ UNCHANGED <<config, call, sent, pc, method, total, attempts, first, last, allSame,
                   outcome, args, wait, peer, prior>>

\* The second call hands its outcome to its caller.
Finish2 ==
    /\ other.pc = "done"
    /\ other' = [other EXCEPT !.pc = "idle"]
    /\ UNCHANGED <<config, call, sent, pc, method, total, attempts, first, last, allSame,
                   outcome, args, wait, peer, prior>>

\* Variant: the timeout is kept in one place for all clients, so that
\* constructing a client sets it for the clients that exist.
NodelaClientInit_SharedTimeout(api_key_arg, t, n, environ) ==
    /\ peer.pc = "absent"
    /\ LET key == ResolveApiKey(api_key_arg, environ) IN
       IF ~Truthy(key)
       THEN /\ peer' = Client(api_key_arg, environ, None, {}, key, "failed", "GET", 0, 0,
                              NoAttempt,
                              Raised("AuthenticationError", ApiKeyRequiredMessage, None, None))
            /\ timeout' = timeout
       ELSE /\ peer' = Client(api_key_arg, environ,
                              Some(HTTPClientOf(DefaultBaseUrl, CHOOSE k \in key : TRUE, t, n)),
                              {"invoices", "transactions"}, key, "idle", "GET", n, 0,
                              NoAttempt, NoOutcome)
            /\ timeout' = t
    /\ UNCHANGED <<base_url_arg, base_url, api_key, call, sent, other, max_retries, pc,
                   method, total, attempts, first, last, allSame, outcome, args, wait,
                   prior>>

\* NodelaClient.__init__(api_key, timeout, max_retries) in the environment
\* environ: a second client is constructed, or the construction raises.
NodelaClientInit(api_key_arg, t, n, environ) ==
    /\ peer.pc = "absent"
    /\ LET key == ResolveApiKey(api_key_arg, environ) IN
       peer' = IF ~Truthy(key)
               THEN Client(api_key_arg, environ, None, {}, key, "failed", "GET", 0, 0,
                           NoAttempt,
                           Raised("AuthenticationError", ApiKeyRequiredMessage, None, None))
               ELSE Client(api_key_arg, environ,
                           Some(HTTPClientOf(DefaultBaseUrl, CHOOSE k \in key : TRUE, t, n)),
                           {"invoices", "transactions"}, key, "idle", "GET", n, 0,
                           NoAttempt, NoOutcome)
    /\ UNCHANGED mainvars

\* The http client of the second client.
PeerHttp == CHOOSE h \in peer.http : TRUE

\* HTTPClient.request is entered on the second client.
PeerRequest(m) ==
    /\ peer.pc = "idle"
    /\ peer' = [peer EXCEPT !.pc = "sending", !.method = m,
                            !.total = PeerHttp.max_retries, !.attempts = 0,
                            !.last = NoAttempt, !.outcome = NoOutcome]
    /\ UNCHANGED mainvars

\* One attempt of the call on the second client completes with outcome o.
PeerAttempt(o) ==
    /\ peer.pc = "sending"
    /\ peer.attempts < AttemptCap
    /\ LET r == SessionRequest(peer.method, peer.total, o) IN
       peer' = IF r.action = "retry"
               THEN [peer EXCEPT !.total = r.total, !.attempts = peer.attempts + 1,
                                 !.last = o]
               ELSE [peer EXCEPT !.pc = "done", !.attempts = peer.attempts + 1,
                                 !.last = o, !.outcome = RequestResult(r, o)]
    /\ UNCHANGED mainvars

\* The caller of the second client has the outcome.
PeerFinish ==
    /\ peer.pc = "done"
    /\ peer' = [peer EXCEPT !.pc = "idle"]
    /\ UNCHANGED mainvars

\* The caller makes the call it made last once more, with the same
\* method and arguments; `prior' keeps the outcome of the first of the two.
RequestAgain ==
    /\ call # NoCall
    /\ StartCall(method, call)
    /\ args' = args
    /\ prior' = outcome

Next ==
    \/ \E m \in Methods : Request(m, DefaultEndpoint, None, None, None)
    \/ \E o \in AttemptOutcomes : Attempt(o)
    \/ Finish

Spec == Init /\ [][Next]_vars

\* Every dispatched attempt completes or times out, and the caller takes the
\* outcome: the request call is a sequential loop that is always scheduled.
FairSpec == Spec /\ WF_vars(\E o \in AttemptOutcomes : Attempt(o)) /\ WF_vars(Finish)

----------------------------------------------------------------------------
\* The shape of the dispatched request: clients of any configuration, calls
\* through every entry point, and a few transport outcomes.

WireRetries == 1

WireMethods == {"GET", "HEAD"}

WireOutcomes ==
    {Response(200, BodyWithoutMessage, FALSE), Response(404, BodyWithMessage, FALSE),
     Response(503, BodyWithMessage, FALSE),
     Fault("ConnectTimeoutError"), Fault("ReadTimeoutError")}

Pages == {None, Some(0), Some(2)}

Limits == {None, Some(10)}

InvoiceIds == {<<"inv_1">>}

InvoiceParams ==
    [amount : {"100"}, currency : {"USD", "usd", "XYZ"}, reference : {None, Some("ref_1")}]

WireInit ==
    \E b \in BaseUrls, k \in ApiKeys, t \in Timeouts : Construct(b, k, t, WireRetries)

WireNext ==
    \/ \E m \in WireMethods, e \in Endpoints, d \in Payloads, q \in Queries,
          h \in CustomHeaders : Request(m, e, d, q, h)
    \/ \E e \in Endpoints, q \in Queries : Get(e, q)
    \/ \E e \in Endpoints, d \in Payloads : Post(e, d)
    \/ \E e \in Endpoints, d \in Payloads : Put(e, d)
    \/ \E e \in Endpoints, d \in Payloads : Patch(e, d)
    \/ \E e \in Endpoints : Delete(e)
    \/ \E page \in Pages, limit \in Limits : TransactionsList(page, limit)
    \/ \E id \in InvoiceIds : InvoicesVerify(id)
    \/ \E params \in InvoiceParams : InvoicesCreate(params)
    \/ \E o \in WireOutcomes : Attempt(o)
    \/ Finish

WireSpec == WireInit /\ [][WireNext]_vars

----------------------------------------------------------------------------
\* Two calls in flight on one client, their steps interleaved in any order.

ConcMethods == {"GET", "HEAD"}

ConcOutcomes == WireOutcomes

ConcNext ==
    \/ \E m \in ConcMethods : Request(m, DefaultEndpoint, None, None, None)
    \/ \E o \in ConcOutcomes : Attempt(o)
    \/ Finish
    \/ \E m \in ConcMethods : Request2(m)
    \/ \E o \in ConcOutcomes : Attempt2(o)
    \/ Finish2

ConcSpec == Init /\ [][ConcNext]_vars

----------------------------------------------------------------------------
\* One client on which the caller repeats calls.

RepeatMethods == {"GET", "HEAD"}

RepeatOutcomes ==
    {Response(200, BodyWithoutMessage, FALSE), Response(200, BodyWithMessage, FALSE),
     Response(404, BodyWithMessage, FALSE), Response(503, BodyWithMessage, FALSE),
     Fault("ReadTimeoutError")}

RepeatInit == Construct(DefaultBaseUrl, "key_1", DefaultTimeout, WireRetries)

RepeatNext ==
    \/ \E m \in RepeatMethods : Request(m, DefaultEndpoint, None, None, None)
    \/ RequestAgain
    \/ \E o \in RepeatOutcomes : Attempt(o)
    \/ Finish

RepeatSpec == RepeatInit /\ [][RepeatNext]_vars

----------------------------------------------------------------------------
\* Two clients in one process: the second one is constructed while the
\* first exists, and calls on the two are interleaved in any order.

ApiKeyArgs == {None, Some(""), Some("   "), Some("key_2")}

Environs ==
    {{}, {<<"NODELA_API_KEY", "env_key">>}, {<<"NODELA_API_KEY", "">>},
     {<<"nodela_api_key", "env_key">>}}

PeerTimeouts == {60}

PeerRetries == {0, WireRetries}

ClientsMethods == {"GET", "HEAD"}

ClientsOutcomes ==
    {Response(200, BodyWithoutMessage, FALSE), Response(404, BodyWithMessage, FALSE),
     Response(503, BodyWithMessage, FALSE),
     Fault("ReadTimeoutError")}

ClientsInit == Construct(DefaultBaseUrl, "key_1", DefaultTimeout, WireRetries)

ClientsNext ==
    \/ \E m \in ClientsMethods : Request(m, DefaultEndpoint, None, None, None)
    \/ \E o \in ClientsOutcomes : Attempt(o)
    \/ Finish
    \/ \E a \in ApiKeyArgs, t \in PeerTimeouts, n \in PeerRetries, e \in Environs :
          NodelaClientInit(a, t, n, e)
    \/ \E m \in ClientsMethods : PeerRequest(m)
    \/ \E o \in ClientsOutcomes : PeerAttempt(o)
    \/ PeerFinish

ClientsSpec == ClientsInit /\ [][ClientsNext]_vars

TypeOK ==
    /\ max_retries \in 0..MaxRetriesBound
    /\ pc \in {"idle", "sending", "done"}
    /\ method \in Methods
    /\ total \in 0..max_retries
    /\ attempts \in 0..AttemptCap
    /\ first \in Statuses \cup {0}
    /\ last \in AttemptOutcomes \cup {NoAttempt}
    /\ allSame \in BOOLEAN

----------------------------------------------------------------------------
\* The classification table of the specification: the outcome kind for a status.
TableKind(s) ==
    IF s \in {200, 201} THEN "Success"
    ELSE IF s = 401 THEN "AuthenticationError"
    ELSE IF s \in {400, 422} THEN "ValidationError"
    ELSE IF s = 404 THEN "NotFoundError"
    ELSE IF s = 429 THEN "RateLimitError"
    ELSE IF s >= 500 THEN "ServerError"
    ELSE "NodelaError"

\* The specification's retry condition for the outcome o of an attempt.
SpecRetryable(m, o) ==
    /\ m \in {"GET", "POST", "PUT", "DELETE", "PATCH"}
    /\ \/ o.type = "response" /\ o.status \in {429, 500, 502, 503, 504}
       \/ o.type = "fault" /\ o.fault \in {"ConnectTimeoutError", "NewConnectionError",
                                          "ReadTimeoutError", "ProtocolError"}

IsResponse(o, s) == o.type = "response" /\ o.status = s

----------------------------------------------------------------------------
\* C1: a finished request whose last exchange was a response with status s
\* and body b has the outcome the classification table gives for s (200/201:
\* the decoded body is returned unchanged; otherwise the error kind of s),
\* for every status and every decoded body.
C1_ClassifiedByTable ==
    (pc = "done" /\ last.type = "response") =>
        /\ outcome.kind = TableKind(last.status)
        /\ last.status \in {200, 201} => outcome.value = Some(DecodeBody(last.body))

\* C2: when every attempt of a call receives status 503, exactly
\* max_retries + 1 attempts are made and the call ends with a ServerError.
C2_ExhaustionEndsInServerError ==
    (pc = "done" /\ method \in RetryableMethods /\ allSame /\ IsResponse(last, 503)) =>
        /\ attempts = max_retries + 1
        /\ outcome.kind = "ServerError"

\* C3: with max_retries = 3, when the first attempt received 503 and the
\* second receives 200, the call ends with that attempt, after exactly 2
\* attempts, returning the decoded body of the 200 response; a finished call
\* dispatches no further attempt.
C3_ShortCircuit ==
    [][/\ (/\ max_retries = 3 /\ pc = "sending" /\ attempts = 1 /\ first = 503
           /\ attempts' = 2 /\ IsResponse(last', 200))
          => (/\ pc' = "done"
              /\ outcome' = Returned(DecodeBody(last'.body)))
       /\ pc = "done" => (attempts' = attempts \/ attempts' = 0)]_vars

C3_Witness ==
    /\ pc = "done" /\ max_retries = 3 /\ method \in RetryableMethods
    /\ attempts = 2 /\ first = 503 /\ IsResponse(last, 200)
    /\ outcome.kind = "Success"

\* C4: a call never makes more than max_retries + 1 attempts, whatever the
\* method and the transport outcomes of its attempts.
C4_AttemptsBounded == attempts <= max_retries + 1

C4_Witness ==
    /\ pc = "done" /\ max_retries >= 2 /\ attempts = max_retries + 1
    /\ last.type = "fault" /\ ~allSame

\* C5: with max_retries = 0 a call makes exactly one attempt, and the outcome
\* of the call is the classification of that attempt's outcome.
C5_SingleAttemptClassified ==
    (pc = "done" /\ max_retries = 0) =>
        /\ attempts = 1
        /\ last.type = "response" => outcome = HandleResponse(last.status, last.body)

\* C6: a further attempt is made only if the method is retryable and the
\* previous attempt returned a status in {429, 500, 502, 503, 504} or failed
\* with a connection failure or timeout.
C6_RetryOnlyWhenRetryable ==
    [][(attempts >= 1 /\ attempts' = attempts + 1) => SpecRetryable(method, last)]_vars

\* C7: every call that was started finishes with exactly one outcome, only
\* after an attempt with a non-retryable outcome or after max_retries + 1
\* attempts, and the outcome of a finished call does not change.
C7_OneOutcomePerCall ==
    /\ (pc = "sending") ~> (pc = "done")
    /\ [][(pc = "sending" /\ pc' = "done") =>
            /\ outcome = NoOutcome /\ outcome' # NoOutcome
            /\ (attempts' = max_retries + 1 \/ ~SpecRetryable(method, last'))]_vars
    /\ [][(pc = "sending" /\ pc' = "sending") => outcome' = NoOutcome]_vars
    /\ [][pc = "done" => outcome' = outcome]_vars

C7_Witness ==
    /\ pc = "done" /\ attempts >= 2 /\ attempts < max_retries + 1
    /\ outcome # NoOutcome

\* C8: every finished call either returned a payload or raised an error of
\* the NodelaError family.
C8_TaxonomyExhaustive ==
    pc = "done" => outcome.kind \in {"Success"} \cup NodelaErrorKinds

\* C9: when the retries are used up because every attempt returned the same
\* retryable status s with body b, the error raised has status_code = s,
\* response = b and the kind the classification table gives for s.
C9_ExhaustedErrorCarriesResponse ==
    (/\ pc = "done" /\ method \in RetryableMethods /\ allSame
     /\ last.type = "response" /\ last.status \in RetryableStatuses
     /\ attempts = max_retries + 1) =>
        /\ outcome.kind = TableKind(last.status)
        /\ outcome.status_code = Some(last.status)
        /\ outcome.response = Some(DecodeBody(last.body))

\* C10: a call that ends on a timeout raises a NetworkError whose message
\* says "timed out" and not "Connection error"; one that ends on a connection
\* failure raises a NetworkError whose message says "Connection error" and
\* not "Request timed out"; both messages end with the text of the cause.
C10_TimeoutVsConnectionMessage ==
    (pc = "done" /\ last.type = "fault") =>
        /\ last.fault \in {"ConnectTimeoutError", "ReadTimeoutError"} =>
              /\ outcome.kind = "NetworkError"
              /\ Contains(outcome.message, <<"timed", "out">>)
              /\ ~Contains(outcome.message, <<"Connection", "error">>)
              /\ Contains(outcome.message, FaultText(last.fault))
        /\ last.fault \in {"NewConnectionError", "ProtocolError"} =>
              /\ outcome.kind = "NetworkError"
              /\ Contains(outcome.message, <<"Connection", "error">>)
              /\ ~Contains(outcome.message, <<"Request", "timed", "out">>)
              /\ Contains(outcome.message, FaultText(last.fault))

----------------------------------------------------------------------------
\* C11: a call that ends on a transport fault that is neither a timeout nor
\* a connection failure raises the base NodelaError with the message
\* "Request failed: <cause>", and no NetworkError or other exception.
C11_OtherFaultIsNodelaError ==
    (/\ pc = "done" /\ last.type = "fault"
     /\ last.fault \notin {"ConnectTimeoutError", "ReadTimeoutError",
                           "NewConnectionError", "ProtocolError"}) =>
        outcome = Raised("NodelaError",
                         <<"Request", "failed", ":">> \o FaultText(last.fault), None, None)

C11_Witness ==
    /\ pc = "done" /\ last = Fault("ChunkedEncodingError")
    /\ outcome.kind = "NodelaError"

\* C13: every error raised for a response whose status is not 200 or 201
\* has status_code equal to the status, response equal to the decoded body,
\* and as message the "message" field of the body, or "An error occurred"
\* when the body has none.
C13_ErrorCarriesStatusBodyMessage ==
    (pc = "done" /\ last.type = "response" /\ last.status \notin {200, 201}) =>
        /\ outcome.status_code = Some(last.status)
        /\ outcome.response = Some(DecodeBody(last.body))
        /\ outcome.message =
              IF last.body = BodyWithMessage THEN <<"Too", "many", "requests">>
              ELSE IF last.body = BodyText THEN <<"Bad", "Gateway">>
              ELSE <<"An", "error", "occurred">>

\* C14: a NetworkError raised by request has no status_code and no response,
\* and every error raised for a received response has a status_code.
C14_NetworkErrorsHaveNoStatus ==
    /\ (pc = "done" /\ outcome.kind = "NetworkError") =>
          /\ outcome.status_code = None
          /\ outcome.response = None
          /\ last.type = "fault"
    /\ (pc = "done" /\ last.type = "response" /\ outcome.kind # "Success") =>
          outcome.status_code # None

\* A finished call whose last response was handed to _handle_response: the
\* session returns every response except a status of the retry list on a
\* method of the retry list, for which it raises once the retries are used up.
HandedToHandleResponse ==
    /\ pc = "done" /\ last.type = "response"
    /\ ~(method \in {"GET", "POST", "PUT", "DELETE", "PATCH"}
           /\ last.status \in {429, 500, 502, 503, 504})

\* C15: a response body that is not JSON is replaced by {"message": <raw
\* text>} whatever the status: with 200 or 201 the call returns that mapping,
\* with any other status it raises the error kind of the status with the raw
\* text as message and that mapping as response.
C15_UndecodableBodyBecomesMessage ==
    /\ \A st \in Statuses :
          LET o == HandleResponse(st, BodyText)
              substitute == [fields |-> {<<"message", <<"Bad", "Gateway">>>>},
                             kind |-> "object", text |-> <<>>]
          IN  IF st \in {200, 201}
              THEN o.kind = "Success" /\ o.value = {substitute}
              ELSE /\ o.kind = TableKind(st)
                   /\ o.message = <<"Bad", "Gateway">>
                   /\ o.response = {substitute}
                   /\ o.status_code = {st}
    /\ (HandedToHandleResponse /\ ~last.body.json) =>
          /\ outcome.kind = TableKind(last.status)
          /\ last.status \in {200, 201} =>
                outcome.value = {[fields |-> {<<"message", last.body.text>>},
                                  kind |-> "object", text |-> <<>>]}
          /\ last.status \notin {200, 201} =>
                /\ outcome.message = last.body.text
                /\ outcome.response = {[fields |-> {<<"message", last.body.text>>},
                                         kind |-> "object", text |-> <<>>]}

C15_Witness ==
    /\ pc = "done" /\ method = "HEAD"
    /\ last = Response(503, BodyText, FALSE)
    /\ outcome.kind = "ServerError"
    /\ outcome.message = <<"Bad", "Gateway">>

----------------------------------------------------------------------------
\* C12 as stated: every attempt is dispatched with the configured timeout;
\* an attempt that times out or fails to connect is retried while retries
\* remain; a NetworkError is raised only after max_retries + 1 attempts; an
\* attempt that succeeds after such failures gives Success.
C12_TimeoutsAlwaysRetried ==
    [][(pc = "sending" /\ attempts' = attempts + 1) =>
          /\ sent'.timeout = {timeout}
          /\ (/\ last'.type = "fault"
              /\ last'.fault \in {"ConnectTimeoutError", "ReadTimeoutError",
                                  "NewConnectionError", "ProtocolError"}
              /\ attempts' < max_retries + 1) => pc' = "sending"
          /\ (pc' = "done" /\ outcome'.kind = "NetworkError") =>
                attempts' = max_retries + 1
          /\ (last'.type = "response" /\ last'.status = 200) =>
                (pc' = "done" /\ outcome'.kind = "Success")]_vars

\* C12: every attempt is dispatched with the configured timeout. An attempt
\* that fails to connect (connect timeout, connection refused) is retried
\* while retries remain, for any method; an attempt that times out reading
\* the response or whose connection is aborted is retried while retries
\* remain when the method is GET, POST, PUT, DELETE or PATCH, and ends the
\* call at once in a NetworkError for any other method. For those five
\* methods a NetworkError is raised only after max_retries + 1 attempts, and
\* an attempt that succeeds after such failures gives Success.
C12_TimeoutsRetriedForRetryableMethods ==
    [][(pc = "sending" /\ attempts' = attempts + 1) =>
          /\ sent'.timeout = {timeout}
          /\ (/\ last'.type = "fault"
              /\ last'.fault \in {"ConnectTimeoutError", "ReadTimeoutError",
                                  "NewConnectionError", "ProtocolError"}
              /\ attempts' < max_retries + 1) =>
                IF \/ method \in {"GET", "POST", "PUT", "DELETE", "PATCH"}
                   \/ last'.fault \in {"ConnectTimeoutError", "NewConnectionError"}
                THEN pc' = "sending"
                ELSE pc' = "done" /\ outcome'.kind = "NetworkError"
          /\ (/\ pc' = "done" /\ outcome'.kind = "NetworkError"
              /\ method \in {"GET", "POST", "PUT", "DELETE", "PATCH"}) =>
                attempts' = max_retries + 1
          /\ (last'.type = "response" /\ last'.status = 200) =>
                (pc' = "done" /\ outcome'.kind = "Success")]_vars

C12_Witness ==
    /\ pc = "done" /\ method = "GET" /\ max_retries >= 2
    /\ attempts = max_retries + 1
    /\ last = Fault("ReadTimeoutError")
    /\ outcome.kind = "NetworkError"
    /\ sent.timeout = {timeout}

\* C16: the stored base_url is the constructor's base URL without its
\* trailing slashes and never ends with "/"; the URL of every dispatched
\* request is the stored base_url, one "/", and the endpoint without its
\* leading slashes, so "https://api.example.com/" and "/v1/x" give
\* "https://api.example.com/v1/x".
C16_UrlHasNoDoubleSlash ==
    /\ base_url = <<>> \/ base_url[Len(base_url)] # "/"
    /\ \E k \in 0..Len(base_url_arg) : base_url_arg = base_url \o [i \in 1..k |-> "/"]
    /\ sent # NoRequest =>
          \E k \in 0..Len(call.endpoint) :
              LET rest == SubSeq(call.endpoint, k + 1, Len(call.endpoint)) IN
              /\ \A i \in 1..k : call.endpoint[i] = "/"
              /\ rest = <<>> \/ rest[1] # "/"
              /\ sent.url = base_url \o <<"/">> \o rest
    /\ (/\ sent # NoRequest
        /\ base_url_arg = <<"https:", "/", "/", "api.example.com", "/">>
        /\ call.endpoint = <<"/", "v1", "/", "x">>) =>
          sent.url = <<"https:", "/", "/", "api.example.com", "/", "v1", "/", "x">>

C16_Witness ==
    /\ pc = "idle" /\ attempts = 2
    /\ base_url_arg = <<"https:", "/", "/", "api.example.com", "/", "/">>
    /\ call.endpoint = <<"/", "/", "v1", "/", "x">>
    /\ sent.url = <<"https:", "/", "/", "api.example.com", "/", "v1", "/", "x">>

\* C17: the headers of every dispatched request are the three defaults
\* overlaid by the headers of the call: a key given by the call has the
\* call's value, also when it is a default key such as Authorization, and
\* every other default key has its default value; no other key is sent.
C17_CallHeadersOverrideDefaults ==
    sent # NoRequest =>
        \E h \in sent.headers :
            LET custom == IF call.headers = None THEN <<>>
                          ELSE CHOOSE c \in call.headers : TRUE
            IN  /\ DOMAIN h = {"Authorization", "Content-Type", "User-Agent"}
                                  \cup DOMAIN custom
                /\ \A k \in DOMAIN custom : h[k] = custom[k]
                /\ "Authorization" \notin DOMAIN custom =>
                      h["Authorization"] = <<"Bearer", api_key>>
                /\ "Content-Type" \notin DOMAIN custom =>
                      h["Content-Type"] = <<"application/json">>
                /\ "User-Agent" \notin DOMAIN custom =>
                      h["User-Agent"] = <<"NodelaSDK/1.0">>

C17_Witness ==
    /\ pc = "done" /\ call.via = "request"
    /\ \E c \in call.headers : "Authorization" \in DOMAIN c
    /\ \E h \in sent.headers :
          /\ h["Authorization"] = <<"Bearer", "different_token">>
          /\ h["X-Custom-Header"] = <<"custom-value">>
          /\ h["Content-Type"] = <<"application/json">>

\* C18: every request dispatched for a call without headers of its own,
\* retries and calls through the invoice and transaction resources
\* included, carries Authorization "Bearer <api_key>", Content-Type
\* "application/json" and User-Agent "NodelaSDK/1.0".
C18_DefaultHeadersOnEveryRequest ==
    (sent # NoRequest /\ call.headers = None) =>
        \E h \in sent.headers :
            /\ {"Authorization", "Content-Type", "User-Agent"} \subseteq DOMAIN h
            /\ h["Authorization"] = <<"Bearer", api_key>>
            /\ h["Content-Type"] = <<"application/json">>
            /\ h["User-Agent"] = <<"NodelaSDK/1.0">>

C18_Witness ==
    /\ pc = "sending" /\ attempts = 1 /\ total = max_retries - 1
    /\ call.via = "invoices.create" /\ api_key = "key_2"
    /\ \E h \in sent.headers : h["Authorization"] = <<"Bearer", "key_2">>

\* C19: no step changes base_url, api_key, timeout or max_retries; a call
\* starts with all max_retries retries and no outcome whatever the calls
\* before it did, and each of its attempts ends as it would on a client
\* that has made no call before.
C19_ConfigurationNeverChanges ==
    [][/\ UNCHANGED <<base_url_arg, base_url, api_key, timeout, max_retries>>
       /\ (pc = "idle" /\ pc' = "sending") =>
             /\ total' = max_retries
             /\ attempts' = 0
             /\ outcome' = NoOutcome
       /\ (pc = "sending" /\ attempts' = attempts + 1) =>
             LET r == SessionRequest(method, max_retries - attempts, last') IN
             IF r.action = "retry"
             THEN pc' = "sending" /\ outcome' = NoOutcome
             ELSE pc' = "done" /\ outcome' = RequestResult(r, last')]_vars

C19_Witness ==
    /\ pc = "idle" /\ attempts = max_retries + 1 /\ total = 0 /\ max_retries > 0
    /\ outcome.kind = "NetworkError"
    /\ base_url = RStrip(base_url_arg)

\* The retries a call has left after `n' attempts, the last of which ended it
\* when `ended'.
RetriesLeft(n, ended) == max_retries - (IF ended THEN n - 1 ELSE n)

\* C20: with two calls in flight on one client, a step of one call leaves
\* the other call as it is; each call has its own max_retries retries, of
\* which only its own retried attempts take one; and the outcome of each
\* call is the one its own method and its own attempts give.
C20_ConcurrentCallsIndependent ==
    [][/\ other' # other =>
             UNCHANGED <<call, sent, pc, method, total, attempts, first, last, allSame,
                         outcome>>
       /\ <<pc, method, total, attempts, last, outcome>>'
             # <<pc, method, total, attempts, last, outcome>> => other' = other
       /\ pc' # "idle" => total' = RetriesLeft(attempts', pc' = "done")
       /\ other'.pc # "idle" =>
             other'.total = RetriesLeft(other'.attempts, other'.pc = "done")
       /\ attempts' <= max_retries + 1
       /\ other'.attempts <= max_retries + 1
       /\ pc' = "done" =>
             outcome' = RequestResult(
                 SessionRequest(method', RetriesLeft(attempts', TRUE), last'), last')
       /\ other'.pc = "done" =>
             other'.outcome = RequestResult(
                 SessionRequest(other'.method, RetriesLeft(other'.attempts, TRUE),
                                other'.last), other'.last)]_vars

C20_Witness ==
    /\ max_retries >= 2
    /\ pc = "done" /\ attempts = 1 /\ outcome.kind = "Success"
    /\ other.pc = "done" /\ other.attempts = max_retries + 1
    /\ other.outcome.kind = "NetworkError"

----------------------------------------------------------------------------
\* The handler of HTTPClient.request that produced an error message.
StartsWith(msg, prefix) ==
    Len(msg) >= Len(prefix) /\ SubSeq(msg, 1, Len(prefix)) = prefix

HandlersMatched(msg) ==
    {h \in {<<"Request", "timed", "out", ":">>, <<"Connection", "error", ":">>,
             <<"Request", "failed", ":">>} : StartsWith(msg, h)}

\* C30: a call that ends on a connect timeout, which is both a timeout and a
\* connection failure, raises NetworkError "Request timed out: <cause>" and
\* never "Connection error: ..."; a call that ends on any transport fault
\* has the error of exactly one of the three handlers, the first of timeout,
\* connection failure, other that matches the exception.
C30_TimeoutHandlerFirst ==
    (pc = "done" /\ last.type = "fault") =>
        /\ Cardinality(HandlersMatched(outcome.message)) = 1
        /\ outcome.kind = IF StartsWith(outcome.message, <<"Request", "failed", ":">>)
                          THEN "NodelaError" ELSE "NetworkError"
        /\ last.fault = "ConnectTimeoutError" =>
              /\ outcome.kind = "NetworkError"
              /\ StartsWith(outcome.message, <<"Request", "timed", "out", ":">>)
              /\ ~Contains(outcome.message, <<"Connection", "error">>)
              /\ Contains(outcome.message, FaultText(last.fault))

C30_Witness ==
    /\ pc = "done" /\ max_retries = 2 /\ attempts = 3
    /\ last = Fault("ConnectTimeoutError")
    /\ outcome.kind = "NetworkError"
    /\ StartsWith(outcome.message, <<"Request", "timed", "out", ":">>)

----------------------------------------------------------------------------
\* The outcome of a call that ended with its attempt n on a client built
\* with max_retries = retries, for the method m and the last outcome o.
OwnOutcome(m, retries, n, o) ==
    RequestResult(SessionRequest(m, retries - (n - 1), o), o)

\* C21: with two clients, a step that constructs the second client or
\* moves a call on it leaves the first client's api_key, timeout, retry
\* policy, call and outcome as they are, and a step of the first client
\* leaves the second as it is; the second client has an HTTP client and
\* resources of its own, which no step changes; and the outcome of a call
\* on either client is the one its own max_retries, method and attempts give.
C21_ClientsIndependent ==
    [][/\ peer' # peer => UNCHANGED mainvars
       /\ mainvars' # mainvars => peer' = peer
       /\ UNCHANGED <<api_key, timeout, max_retries>>
       /\ peer.http # None =>
             /\ peer'.http = peer.http
             /\ peer'.api_key = peer.api_key
             /\ peer'.resources = peer.resources
       /\ peer'.pc \in {"idle", "sending", "done"} =>
             /\ peer'.http # None
             /\ peer'.resources = {"invoices", "transactions"}
       /\ pc' = "done" => outcome' = OwnOutcome(method', max_retries, attempts', last')
       /\ peer'.pc = "done" =>
             \E h \in peer'.http :
                 peer'.outcome = OwnOutcome(peer'.method, h.max_retries, peer'.attempts,
                                            peer'.last)]_vars

C21_Witness ==
    /\ pc = "done" /\ attempts = 2 /\ outcome.kind = "Success"
    /\ timeout = 30 /\ api_key = "key_1" /\ max_retries >= 1
    /\ peer.pc = "done" /\ peer.attempts = 1 /\ peer.outcome.kind = "NetworkError"
    /\ peer.method = "GET"
    /\ \E h \in peer.http : h.timeout = 60 /\ h.api_key = "key_2" /\ h.max_retries = 0

\* C22: a client constructed with a non-empty api_key argument has that
\* argument as its key, whatever the environment holds, a whitespace-only
\* argument included; constructed without one (None or "") it has the
\* non-empty value of the variable named exactly NODELA_API_KEY; and when
\* neither gives a non-empty value the construction raises
\* AuthenticationError saying "API key is required" and builds no HTTP
\* client and no resources.
C22_ApiKeyResolution ==
    peer.pc # "absent" =>
        LET fromEnv == {e[2] : e \in {v \in peer.environ :
                                        v[1] = "NODELA_API_KEY" /\ v[2] # ""}}
            built(k) == /\ peer.pc \in {"idle", "sending", "done"}
                        /\ peer.api_key = {k}
                        /\ \E h \in peer.http : h.api_key = k
                        /\ peer.resources = {"invoices", "transactions"}
        IN  IF peer.api_key_arg \notin {None, Some("")}
            THEN \A k \in peer.api_key_arg : built(k)
            ELSE IF fromEnv # {}
            THEN \A k \in fromEnv : built(k)
            ELSE /\ peer.pc = "failed"
                 /\ peer.outcome.kind = "AuthenticationError"
                 /\ Contains(peer.outcome.message, <<"API", "key", "is", "required">>)
                 /\ peer.http = None
                 /\ peer.resources = {}

C22_Witness ==
    /\ peer.pc = "failed"
    /\ peer.api_key_arg = Some("")
    /\ peer.environ = {<<"nodela_api_key", "env_key">>}
    /\ peer.outcome.kind = "AuthenticationError"
    /\ peer.http = None

\* A call in position p with method m whose last outcome o is a response
\* that session.request returned, so that _handle_response classified it.
Classified(p, m, o) ==
    /\ p = "done" /\ o.type = "response"
    /\ ~(m \in {"GET", "POST", "PUT", "DELETE", "PATCH"}
           /\ o.status \in {429, 500, 502, 503, 504})

WrapperMethod(via) ==
    CASE via = "get" -> "GET" [] via = "post" -> "POST" [] via = "put" -> "PUT"
      [] via = "patch" -> "PATCH" [] OTHER -> "DELETE"

\* C24: every attempt of a call to request carries the body it was given as
\* JSON and the query it was given as params, and none of the two when it
\* was given none; every attempt of a call through a wrapper has the
\* wrapper's method, the query given to get, the body given to post, put or
\* patch, nothing else (no body for get, no query for post, put and patch,
\* neither for delete), and the default headers only.
C24_BodyAndQueryOnlyWhenSupplied ==
    (sent # NoRequest /\ args[1] \in {"request", "get", "post", "put", "patch", "delete"}) =>
        /\ args[1] = "request" =>
              /\ sent.method = args[2]
              /\ sent.json = args[4]
              /\ sent.params = args[5]
        /\ args[1] # "request" =>
              /\ sent.method = WrapperMethod(args[1])
              /\ sent.json = IF args[1] \in {"post", "put", "patch"} THEN args[3] ELSE None
              /\ sent.params = IF args[1] = "get" THEN args[3] ELSE None
              /\ \E h \in sent.headers :
                    DOMAIN h = {"Authorization", "Content-Type", "User-Agent"}

C24_Witness ==
    /\ pc = "done" /\ attempts = 2
    /\ args = <<"delete", <<"/", "v1", "/", "x">>>>
    /\ sent.method = "DELETE" /\ sent.json = None /\ sent.params = None

\* C25: a call Transactions.list(page, limit) is one call of get: every
\* attempt is a GET of <base_url>/v1/transactions without a body, whose
\* query is None when page and limit are both None, and otherwise has
\* exactly the key "page" with the given page when page is not None (page
\* 0 included) and the key "limit" with the given limit when limit is not
\* None.
C25_ListQuery ==
    (args # NoArgs /\ args[1] = "transactions.list") =>
        LET page == args[2]
            limit == args[3]
        IN  /\ call.via = "transactions.list" /\ method = "GET"
            /\ call.endpoint = <<"v1", "/", "transactions">>
            /\ call.data = None
            /\ IF page = None /\ limit = None
               THEN call.params = None
               ELSE \E q \in call.params :
                       /\ \A kv \in q : kv[1] \in {"page", "limit"}
                       /\ {kv[2] : kv \in {e \in q : e[1] = "page"}} = page
                       /\ {kv[2] : kv \in {e \in q : e[1] = "limit"}} = limit
            /\ sent # NoRequest =>
                  /\ sent.method = "GET"
                  /\ sent.url = base_url \o <<"/", "v1", "/", "transactions">>
                  /\ sent.params = call.params
                  /\ sent.json = None
            /\ pc = "done" => (attempts >= 1 /\ attempts <= max_retries + 1)

C25_Witness ==
    /\ pc = "done" /\ args = <<"transactions.list", Some(0), None>>
    /\ sent.method = "GET" /\ sent.params = Some({<<"page", 0>>})
    /\ outcome.kind = "Success"

\* C26: Invoices.create(params) whose currency in upper case is not in
\* SUPPORTED_CURRENCIES raises ValueError without dispatching a request;
\* otherwise it is one call of post: every attempt is a POST of
\* <base_url>/v1/invoices whose JSON body has the fields of params that are
\* not None, with the currency in upper case. Invoices.verify(invoice_id)
\* is one call of get: every attempt is a GET of
\* <base_url>/v1/invoices/<invoice_id>/verify without body or query.
C26_InvoiceRequests ==
    /\ (args # NoArgs /\ args[1] = "invoices.create") =>
          LET params == args[2]
              upper == IF params.currency = "usd" THEN "USD" ELSE params.currency
          IN  IF upper \notin {"USD", "EUR", "NGN"}
              THEN /\ pc \in {"done", "idle"}
                   /\ outcome.kind = "ValueError"
                   /\ attempts = 0
                   /\ sent = NoRequest
              ELSE /\ call.via = "invoices.create" /\ method = "POST"
                   /\ call.endpoint = <<"v1", "/", "invoices">>
                   /\ call.params = None
                   /\ \E d \in call.data :
                         /\ d.kind = "object"
                         /\ d.fields =
                               {<<"amount", <<params.amount>>>>, <<"currency", <<upper>>>>}
                                 \cup {<<"reference", <<r>>>> : r \in params.reference}
                   /\ sent # NoRequest =>
                         /\ sent.method = "POST"
                         /\ sent.url = base_url \o <<"/", "v1", "/", "invoices">>
                         /\ sent.json = call.data
                         /\ sent.params = None
                   /\ pc = "done" => (attempts >= 1 /\ attempts <= max_retries + 1)
    /\ (args # NoArgs /\ args[1] = "invoices.verify") =>
          /\ call.via = "invoices.verify" /\ method = "GET"
          /\ call.endpoint = <<"v1", "/", "invoices", "/">> \o args[2] \o <<"/", "verify">>
          /\ call.data = None /\ call.params = None
          /\ sent # NoRequest =>
                /\ sent.method = "GET"
                /\ sent.url = base_url \o <<"/">> \o call.endpoint
                /\ sent.json = None /\ sent.params = None
          /\ pc = "done" => (attempts >= 1 /\ attempts <= max_retries + 1)

C26_Witness ==
    /\ pc = "done" /\ args[1] = "invoices.create"
    /\ args[2].currency = "usd" /\ args[2].reference = None
    /\ sent.method = "POST"
    /\ \E d \in sent.json :
          d.fields = {<<"amount", <<"100">>>>, <<"currency", <<"USD">>>>}
    /\ outcome.kind = "Success"

----------------------------------------------------------------------------
\* The attempt whose outcome is o was answered with a Retry-After header.
HasRetryAfter(o) == o.type = "response" /\ o.retry_after

\* C27 as stated: after the failed attempt n of a call the wait before the
\* next attempt is 1 * 2^(n-1) seconds (1, 2, 4, ...); each wait is longer
\* than the one before; and there is no wait after the attempt that ends
\* the call, successful or not.
C27_BackoffFromFirstAttempt ==
    [][(pc = "sending" /\ attempts' = attempts + 1) =>
          IF pc' = "sending"
          THEN /\ wait' = 2^(attempts' - 1)
               /\ attempts >= 1 => wait' > wait
          ELSE wait' = 0]_vars

\* C27: after the failed attempt n of a call the wait before the next
\* attempt is the number of seconds of the Retry-After header when the
\* attempt was answered with one, and otherwise 0 for n = 1 and the smaller
\* of 120 and 1 * 2^(n-1) seconds for n >= 2 (0, 2, 4, 8, ...); of two
\* successive waits without Retry-After the second is the longer; and there
\* is no wait after the attempt that ends the call, successful or not.
C27_BackoffAfterSecondFailure ==
    [][(pc = "sending" /\ attempts' = attempts + 1) =>
          IF pc' = "sending"
          THEN /\ wait' = IF HasRetryAfter(last') THEN RetryAfterSeconds
                          ELSE IF attempts' = 1 THEN 0
                          ELSE IF 2^(attempts' - 1) < 120 THEN 2^(attempts' - 1)
                          ELSE 120
               /\ (attempts >= 1 /\ ~HasRetryAfter(last) /\ ~HasRetryAfter(last')) =>
                     wait' > wait
          ELSE wait' = 0]_vars

C27_Witness ==
    /\ pc = "sending" /\ attempts = 3 /\ wait = 4
    /\ last = Fault("ReadTimeoutError") /\ first = 503

\* C28: every attempt of a call Invoices.create is a POST with the invoice
\* payload of the call, the same request each time; after an attempt that
\* got 429, 500, 502, 503 or 504, timed out or failed to connect the POST is
\* sent again while fewer than max_retries + 1 attempts were made, and never
\* after that; and the call goes on after an attempt exactly when a GET
\* with the same retries left would.
C28_PostRetriedLikeGet ==
    [][(call.via = "invoices.create" /\ pc = "sending" /\ attempts' = attempts + 1) =>
          LET failed == \/ last'.type = "response" /\ last'.status \in {429, 500, 502, 503, 504}
                        \/ last'.type = "fault"
          IN  /\ sent'.method = "POST"
              /\ call.data # None /\ sent'.json = call.data
              /\ attempts >= 1 => sent' = sent
              /\ attempts' <= max_retries + 1
              /\ failed => (pc' = "sending" <=> attempts' < max_retries + 1)
              /\ pc' = "sending" <=> SessionRequest("GET", total, last').action = "retry"]_vars

C28_Witness ==
    /\ call.via = "invoices.create" /\ pc = "done"
    /\ max_retries >= 1 /\ attempts = max_retries + 1
    /\ first = 503 /\ last = Fault("ReadTimeoutError")
    /\ sent.method = "POST" /\ sent.json = call.data /\ call.data # None

\* C29: a call of request never ends without an attempt: it starts with no
\* outcome and nothing dispatched, and ends only on an attempt of its own;
\* and when the caller repeats a call, whatever the first one returned or
\* raised, the outcome of the second is the one its own attempts give, as
\* on a client that made no call before.
C29_NothingCached ==
    [][/\ (pc = "idle" /\ pc' # "idle") =>
             /\ pc' = "sending"
             /\ attempts' = 0
             /\ sent' = NoRequest
             /\ outcome' = NoOutcome
       /\ pc' = "done" =>
             /\ attempts' >= 1
             /\ sent' # NoRequest
             /\ outcome' = OwnOutcome(method', max_retries, attempts', last')
       /\ (pc = "sending" /\ pc' = "done") => attempts' = attempts + 1]_vars

C29_Witness ==
    /\ pc = "done" /\ attempts = 1
    /\ prior.kind = "Success"
    /\ last = Response(200, BodyWithMessage, FALSE)
    /\ outcome.kind = "Success" /\ outcome # prior

====
